---- MODULE Spec2Model ----
(***************************************************************************)
(* Model of backend/app.py: the Flask endpoint api_query, the orchestrator *)
(* TourismAgent.handle_request with its place extractor, and the three     *)
(* upstream adapters (GeocodingAgent, WeatherAgent, PlacesAgent).          *)
(*                                                                         *)
(* Python str values are TLA+ strings (sequences of characters); Python    *)
(* None is the empty tuple and a present value v is the one-tuple <<v>>.   *)
(***************************************************************************)
EXTENDS Integers, Sequences, FiniteSets, TLC

VARIABLES
    pc,             \* position of the request in api_query / handle_request
    message,        \* data.get("message", "") as posted by the client
    user_input,     \* argument of handle_request / _extract_place
    wants_weather,  \* intent flag
    wants_places,   \* intent flag
    cand_in,        \* candidate on entry to the extractor pass last run
    candidate,      \* local `candidate` of _extract_place
    place,          \* value returned by _extract_place
    location,       \* None or <<[lat, lon, display_name]>> from geocode
    temp,           \* local `temp` of handle_request, None until assigned
    rain_chance,    \* local `rain_chance` of handle_request
    parts,          \* local `parts` of handle_request
    reply,          \* None or <<string>>: the reply handed to jsonify
    http_status,    \* 0 while running, then 200, 400 or 500
    calls,          \* upstream calls made by this request and how each
                    \* ended ("ok", "not_found" or "error"), in order
    elements,       \* get_places: data["elements"] of the provider
    limit,          \* get_places: the limit argument
    names           \* get_places: None or <<list>>: the returned list

vars == <<pc, message, user_input, wants_weather, wants_places, cand_in,
          candidate, place, location, temp, rain_chance, parts, reply,
          http_status, calls, elements, limit, names>>

None == <<>>
Some(v) == <<v>>

-----------------------------------------------------------------------------
(* Bounds of the model.                                                    *)

MaxFrags == 3       \* fragments per text handed straight to the extractor
MaxMsgFrags == 2    \* fragments per message posted to api_query
MaxElems == 3       \* elements in a places-provider response
MaxLimit == 3       \* largest limit passed to get_places on its own
MaxPrecip == 2      \* hourly precipitation entries in a weather response

-----------------------------------------------------------------------------
(* Python str methods.                                                     *)

UpperChars == "ABCDEFGHIJKLMNOPQRSTUVWXYZ"
LowerChars == "abcdefghijklmnopqrstuvwxyz"

CharAt(s, i) == SubSeq(s, i, i)

\* the lower-case letter of each upper-case letter
LowerOf ==
    [c \in {CharAt(UpperChars, i) : i \in 1..26} |->
        CharAt(LowerChars, CHOOSE i \in 1..26 : CharAt(UpperChars, i) = c)]

LowerChar(c) == IF c \in DOMAIN LowerOf THEN LowerOf[c] ELSE c

RECURSIVE Lower(_)
Lower(s) == IF Len(s) = 0 THEN "" ELSE LowerChar(Head(s)) \o Lower(Tail(s))

IsSpace(c) == c \in {" ", "\t", "\n"}

RECURSIVE LStrip(_)
LStrip(s) ==
    IF Len(s) > 0 /\ IsSpace(Head(s)) THEN LStrip(Tail(s)) ELSE s

RECURSIVE RStrip(_)
RStrip(s) ==
    IF Len(s) > 0 /\ IsSpace(CharAt(s, Len(s)))
    THEN RStrip(SubSeq(s, 1, Len(s) - 1))
    ELSE s

Strip(s) == RStrip(LStrip(s))

\* 0-based positions at which sub occurs in s
Occurrences(sub, s) ==
    {i \in 0..(Len(s) - Len(sub)) : SubSeq(s, i + 1, i + Len(sub)) = sub}

Contains(sub, s) == Occurrences(sub, s) # {}

\* s.index(sub) and s.rfind(sub), for sub in s
Index(s, sub) ==
    CHOOSE i \in Occurrences(sub, s) : \A j \in Occurrences(sub, s) : i <= j
RFind(s, sub) ==
    CHOOSE i \in Occurrences(sub, s) : \A j \in Occurrences(sub, s) : j <= i

\* s[k:] and s[:k]
SliceFrom(s, k) == SubSeq(s, k + 1, Len(s))
SliceTo(s, k) == SubSeq(s, 1, k)

\* length of the leading run of non-whitespace characters
RECURSIVE WordLen(_)
WordLen(s) ==
    IF Len(s) = 0 \/ IsSpace(Head(s)) THEN 0 ELSE 1 + WordLen(Tail(s))

\* s.split(): the whitespace-delimited tokens
RECURSIVE Split(_)
Split(s) ==
    LET t == LStrip(s) IN
    IF Len(t) = 0 THEN <<>>
    ELSE <<SliceTo(t, WordLen(t))>> \o Split(SliceFrom(t, WordLen(t)))

\* sep.join(words)
RECURSIVE Join(_, _)
Join(sep, words) ==
    IF Len(words) = 0 THEN ""
    ELSE IF Len(words) = 1 THEN words[1]
    ELSE words[1] \o sep \o Join(sep, Tail(words))

\* words[-2:]
LastTwo(words) ==
    IF Len(words) <= 2 THEN words ELSE SubSeq(words, Len(words) - 1, Len(words))

DigitChars == "0123456789"

RECURSIVE NatStr(_)
NatStr(n) ==
    IF n < 10 THEN CharAt(DigitChars, n + 1)
    ELSE NatStr(n \div 10) \o CharAt(DigitChars, (n % 10) + 1)

\* str(v) as an f-string formats an optional number
Str(v) ==
    IF v = None THEN "None"
    ELSE IF v[1] < 0 THEN "-" \o NatStr(0 - v[1]) ELSE NatStr(v[1])

-----------------------------------------------------------------------------
(* TourismAgent._extract_place, pass by pass.                              *)

\* Anchor with the first " to " taken instead of the last
Anchor_FirstTo(input) ==
    LET text == Strip(input)
        lower == Lower(text)
    IN  IF Contains(" to ", lower)
        THEN Strip(SliceFrom(text, Index(lower, " to ") + 4))
        ELSE text

\* lines 158-165: anchor on the rightmost " to "
Anchor(input) ==
    LET text == Strip(input)
        lower == Lower(text)
    IN  IF Contains(" to ", lower)
        THEN Strip(SliceFrom(text, RFind(lower, " to ") + 4))
        ELSE text

seps == <<",", "?", ".", " and ", " what ">>

\* TruncateFrom with the break of line 171 left out
RECURSIVE TruncateFrom_NoBreak(_, _)
TruncateFrom_NoBreak(cand, i) ==
    IF i > Len(seps) THEN cand
    ELSE LET lower_cand == Lower(cand) IN
         IF Contains(seps[i], lower_cand)
         THEN TruncateFrom_NoBreak(
                  Strip(SliceTo(cand, Index(lower_cand, seps[i]))), i + 1)
         ELSE TruncateFrom_NoBreak(cand, i + 1)

\* lines 167-171: the loop over the separators, from the i-th on
RECURSIVE TruncateFrom(_, _)
TruncateFrom(cand, i) ==
    IF i > Len(seps) THEN cand
    ELSE LET lower_cand == Lower(cand) IN
         IF Contains(seps[i], lower_cand)
         THEN Strip(SliceTo(cand, Index(lower_cand, seps[i])))
         ELSE TruncateFrom(cand, i + 1)

Truncate(cand) == TruncateFrom(cand, 1)

stop_words ==
    {"i", "im", "i'm", "going", "go", "to", "what", "is", "the",
     "there", "and", "visit", "places", "place", "temperature",
     "weather", "trip", "in", "city", "are", "can", "you",
     "my", "let's", "lets"}

\* lines 179-185: drop the stop words, or keep the last two words
StripStopWords(cand) ==
    LET words == Split(cand)
        filtered == SelectSeq(words, LAMBDA w : Lower(w) \notin stop_words)
    IN  IF Len(filtered) > 0
        THEN Join(" ", filtered)
        ELSE Join(" ", LastTwo(words))

\* lines 187-190
CapLength(cand) ==
    IF Len(Split(cand)) > 3 THEN Join(" ", LastTwo(Split(cand))) ELSE cand

_extract_place(input) == CapLength(StripStopWords(Truncate(Anchor(input))))

-----------------------------------------------------------------------------
(* Intent detection, handle_request lines 99-107.                          *)

weather_keywords == {"temperature", "weather"}
places_keywords == {"place", "places", "visit", "attraction", "sightseeing"}

\* ClassifyIntent with the default of lines 106-107 left out
ClassifyIntent_NoDefault(input) ==
    LET text == Lower(input)
    IN  [wants_weather |-> \E w \in weather_keywords : Contains(w, text),
         wants_places |-> \E w \in places_keywords : Contains(w, text)]

ClassifyIntent(input) ==
    LET text == Lower(input)
        ww == \E w \in weather_keywords : Contains(w, text)
        wp == \E w \in places_keywords : Contains(w, text)
    IN  [wants_weather |-> ww,
         wants_places |-> IF ~ww /\ ~wp THEN TRUE ELSE wp]

-----------------------------------------------------------------------------
(* The upstream adapters.                                                  *)

\* WeatherAgent.get_weather lines 25-31 on the decoded response `data`:
\* max() of a list of two or more entries raises TypeError on a null entry
MaxOf(list) ==
    CHOOSE m \in {list[i][1] : i \in 1..Len(list)} :
        \A i \in 1..Len(list) : list[i][1] <= m

get_weather(data) ==
    LET precip_list == data.precipitation_probability IN
    IF Len(precip_list) = 0
    THEN [raised |-> FALSE, temp |-> data.temperature, rain_chance |-> None]
    ELSE IF Len(precip_list) = 1
    THEN [raised |-> FALSE, temp |-> data.temperature,
          rain_chance |-> precip_list[1]]
    ELSE IF \E i \in 1..Len(precip_list) : precip_list[i] = None
    THEN [raised |-> TRUE, temp |-> None, rain_chance |-> None]
    ELSE [raised |-> FALSE, temp |-> data.temperature,
          rain_chance |-> Some(MaxOf(precip_list))]

\* PlacesAgent.get_places lines 55-63: the loop from the i-th element on
RECURSIVE PlacesLoop(_, _, _, _)
PlacesLoop(els, i, acc, lim) ==
    IF i > Len(els) THEN acc
    ELSE LET name == els[i]
             truthy == name # None /\ Len(name[1]) > 0
             seen == truthy /\ \E k \in 1..Len(acc) : acc[k] = name[1]
             acc2 == IF truthy /\ ~seen THEN Append(acc, name[1]) ELSE acc
         IN  IF Len(acc2) >= lim THEN acc2
             ELSE PlacesLoop(els, i + 1, acc2, lim)

get_places(els, lim) == PlacesLoop(els, 1, <<>>, lim)

\* GeocodingAgent.geocode lines 83-89 on the first result
ShortName(first, query) ==
    LET display_name ==
            IF first.display_name = None THEN query ELSE first.display_name[1]
    IN  IF Contains(",", display_name)
        THEN SliceTo(display_name, Index(display_name, ","))
        ELSE display_name

-----------------------------------------------------------------------------
(* Reply sentences of api_query and handle_request.                        *)

PlacesLimit == 5

\* the degree sign U+00B0 of the weather sentences, written as an ASCII
\* character because TLC keeps only 7-bit characters in stored states
Degree == "^"

MsgEnterQuestion == "Please enter your question or trip plan."
MsgWhichPlace == "Please tell me which place you want to go."
MsgUnknownPlace == "I don't know this place exist."

WeatherFull(display_name, t, rc) ==
    "In " \o display_name \o " it's currently " \o Str(t)
        \o Degree \o "C with a chance of " \o Str(rc) \o "% to rain."

WeatherTempOnly(display_name, t) ==
    "In " \o display_name \o " it's currently " \o Str(t) \o Degree \o "C."

WeatherSorry(display_name) ==
    "Sorry, I couldn't get the weather for " \o display_name \o "."

\* WeatherOnlyReply testing truthiness (`if temp and rain_chance`), so that
\* a value of 0 counts as absent
WeatherOnlyReply_Truthy(display_name, t, rc) ==
    IF (t # None /\ t[1] # 0) /\ (rc # None /\ rc[1] # 0)
    THEN WeatherFull(display_name, t, rc)
    ELSE IF t # None /\ t[1] # 0
    THEN WeatherTempOnly(display_name, t)
    ELSE WeatherSorry(display_name)

\* lines 125-130
WeatherOnlyReply(display_name, t, rc) ==
    IF t # None /\ rc # None
    THEN WeatherFull(display_name, t, rc)
    ELSE IF t # None
    THEN WeatherTempOnly(display_name, t)
    ELSE WeatherSorry(display_name)

\* lines 145-153
PlacesFragment(display_name, with_weather, places) ==
    IF Len(places) > 0
    THEN (IF with_weather
          THEN "And these are the places you can go:"
          ELSE "In " \o display_name \o " these are the places you can go,")
         \o "\n" \o Join("\n", places)
    ELSE "Sorry, I couldn't find tourist places near " \o display_name \o "."

-----------------------------------------------------------------------------
(* Inputs.                                                                 *)

Frags ==
    {"go", " to ", " TO ", "I want to go", "Paris", "Rome", ",", "?", ".",
     " and ", " What ", " ", "weather", "visit"}

MsgFrags == {"Weather", "visit", " to ", "Paris", "?", " ", ","}

RECURSIVE Texts(_, _)
Texts(frags, n) ==
    IF n = 0 THEN {""}
    ELSE LET shorter == Texts(frags, n - 1)
         IN  shorter \cup {t \o f : t \in shorter, f \in frags}

ScenarioTexts ==
    {"What's the weather in Paris?", "I'm going to Tokyo",
     "places to visit in Atlantis", "temperature in Rome",
     "Weather and places to visit in Rome", "  Bengaluru  ",
     "Grand Canyon National Park Arizona"}

ExtractInputs == Texts(Frags, MaxFrags) \cup ScenarioTexts
RawMessages == Texts(MsgFrags, MaxMsgFrags) \cup ScenarioTexts

RECURSIVE SeqsUpTo(_, _)
SeqsUpTo(S, n) ==
    IF n = 0 THEN {<<>>}
    ELSE LET shorter == SeqsUpTo(S, n - 1)
         IN  shorter \cup {Append(q, x) : q \in shorter, x \in S}

GeoResponses ==
    {[ok |-> FALSE, results |-> <<>>],
     [ok |-> TRUE, results |-> <<>>],
     [ok |-> TRUE, results |->
        <<[lat |-> 48, lon |-> 2,
           display_name |-> Some("Paris, Ile-de-France, France")]>>],
     [ok |-> TRUE, results |->
        <<[lat |-> 12, lon |-> 77, display_name |-> None]>>]}

WeatherResponses ==
    {[ok |-> FALSE, temperature |-> None, precipitation_probability |-> <<>>]}
    \cup
    [ok : {TRUE}, temperature : {None, Some(0), Some(21)},
     precipitation_probability :
        SeqsUpTo({None, Some(0), Some(40)}, MaxPrecip)]

ElementSeqs ==
    SeqsUpTo({None, Some(""), Some("Louvre"), Some("Park")}, MaxElems)

PlacesResponses ==
    {[ok |-> FALSE, elements |-> <<>>]} \cup [ok : {TRUE}, elements : ElementSeqs]

-----------------------------------------------------------------------------
(* The request: api_query calling TourismAgent.handle_request.             *)

Fresh ==
    /\ wants_weather = FALSE /\ wants_places = FALSE
    /\ cand_in = "" /\ candidate = "" /\ place = ""
    /\ location = None /\ temp = None /\ rain_chance = None
    /\ parts = <<>> /\ reply = None /\ http_status = 0
    /\ calls = <<>> /\ names = None

Init ==
    /\ pc = "api_query"
    /\ message \in RawMessages
    /\ user_input = ""
    /\ elements = <<>> /\ limit = 0
    /\ Fresh

Return(text) ==
    /\ pc' = "done"
    /\ http_status' = 200
    /\ reply' = Some(text)

\* Raise with a catch-all handler around the upstream calls
Raise_Swallowed == Return("Sorry, something went wrong.")

\* an exception leaves handle_request and api_query: Flask answers 500
Raise ==
    /\ pc' = "done"
    /\ http_status' = 500
    /\ reply' = None

\* api_query lines 206-210
ApiQuery ==
    /\ pc = "api_query"
    /\ LET msg == Strip(message) IN
       IF Len(msg) = 0
       THEN /\ pc' = "done"
            /\ http_status' = 400
            /\ reply' = Some(MsgEnterQuestion)
            /\ UNCHANGED user_input
       ELSE /\ pc' = "classify"
            /\ user_input' = msg
            /\ UNCHANGED <<http_status, reply>>
    /\ UNCHANGED <<message, wants_weather, wants_places, cand_in, candidate,
                   place, location, temp, rain_chance, parts, calls, elements,
                   limit, names>>

\* handle_request lines 99-107
Classify ==
    /\ pc = "classify"
    /\ wants_weather' = ClassifyIntent(user_input).wants_weather
    /\ wants_places' = ClassifyIntent(user_input).wants_places
    /\ pc' = "anchor"
    /\ UNCHANGED <<message, user_input, cand_in, candidate, place, location,
                   temp, rain_chance, parts, reply, http_status, calls,
                   elements, limit, names>>

OutsideExtractor ==
    <<message, user_input, wants_weather, wants_places, location, temp,
      rain_chance, parts, reply, http_status, calls, elements, limit, names>>

\* _extract_place lines 158-165
ExtractAnchor ==
    /\ pc = "anchor"
    /\ cand_in' = user_input
    /\ candidate' = Anchor(user_input)
    /\ pc' = "truncate"
    /\ UNCHANGED <<place, OutsideExtractor>>

\* _extract_place lines 167-171
ExtractTruncate ==
    /\ pc = "truncate"
    /\ cand_in' = candidate
    /\ candidate' = Truncate(candidate)
    /\ pc' = "strip"
    /\ UNCHANGED <<place, OutsideExtractor>>

\* _extract_place lines 173-185
ExtractStrip ==
    /\ pc = "strip"
    /\ cand_in' = candidate
    /\ candidate' = StripStopWords(candidate)
    /\ pc' = "cap"
    /\ UNCHANGED <<place, OutsideExtractor>>

\* _extract_place lines 187-190 and the assignment of line 110
ExtractCap ==
    /\ pc = "cap"
    /\ cand_in' = candidate
    /\ candidate' = CapLength(candidate)
    /\ place' = CapLength(candidate)
    /\ pc' = "extracted"
    /\ UNCHANGED OutsideExtractor

\* CheckPlace with the test of line 111 left out
CheckPlace_NoGuard ==
    /\ pc = "extracted"
    /\ pc' = "geocode"
    /\ UNCHANGED <<message, user_input, wants_weather, wants_places, cand_in,
                   candidate, place, location, temp, rain_chance, parts, reply,
                   http_status, calls, elements, limit, names>>

\* handle_request lines 111-112
CheckPlace ==
    /\ pc = "extracted"
    /\ IF Len(place) = 0
       THEN Return(MsgWhichPlace)
       ELSE pc' = "geocode" /\ UNCHANGED <<reply, http_status>>
    /\ UNCHANGED <<message, user_input, wants_weather, wants_places, cand_in,
                   candidate, place, location, temp, rain_chance, parts, calls,
                   elements, limit, names>>

\* GeocodeNotFound with the error swallowed and the request carrying on
GeocodeNotFound_FallsThrough ==
    /\ location' = Some([lat |-> 0, lon |-> 0, display_name |-> place])
    /\ pc' = "dispatch"
    /\ UNCHANGED <<reply, http_status>>

\* handle_request lines 116-117: the handler of GeocodingError
GeocodeNotFound ==
    /\ Return(MsgUnknownPlace)
    /\ UNCHANGED location

\* handle_request lines 114-117 with GeocodingAgent.geocode lines 72-89
Geocode ==
    /\ pc = "geocode"
    /\ \E resp \in GeoResponses :
        IF ~resp.ok
        THEN /\ calls' = Append(calls, [agent |-> "geocode", q |-> place,
                                        outcome |-> "error"])
             /\ Raise
             /\ UNCHANGED location
        ELSE IF Len(resp.results) = 0
        THEN /\ calls' = Append(calls, [agent |-> "geocode", q |-> place,
                                        outcome |-> "not_found"])
             /\ GeocodeNotFound
        ELSE /\ calls' = Append(calls, [agent |-> "geocode", q |-> place,
                                        outcome |-> "ok"])
             /\ location' =
                    Some([lat |-> resp.results[1].lat,
                          lon |-> resp.results[1].lon,
                          display_name |-> ShortName(resp.results[1], place)])
             /\ pc' = "dispatch"
             /\ UNCHANGED <<reply, http_status>>
    /\ UNCHANGED <<message, user_input, wants_weather, wants_places, cand_in,
                   candidate, place, temp, rain_chance, parts, elements, limit,
                   names>>

WeatherCall(outcome) ==
    [agent |-> "weather", lat |-> location[1].lat, lon |-> location[1].lon,
     outcome |-> outcome]

\* IsWeatherOnly without `and not wants_places`
IsWeatherOnly_IgnoresPlaces == wants_weather

\* handle_request line 122
IsWeatherOnly == wants_weather /\ ~wants_places

\* handle_request lines 122-130 with WeatherAgent.get_weather
WeatherOnly ==
    /\ pc = "dispatch"
    /\ IsWeatherOnly
    /\ \E resp \in WeatherResponses :
        IF ~resp.ok \/ get_weather(resp).raised
        THEN /\ calls' = Append(calls, WeatherCall("error"))
             /\ Raise
             /\ UNCHANGED <<temp, rain_chance>>
        ELSE /\ calls' = Append(calls, WeatherCall("ok"))
             /\ temp' = get_weather(resp).temp
             /\ rain_chance' = get_weather(resp).rain_chance
             /\ Return(WeatherOnlyReply(location[1].display_name,
                                        get_weather(resp).temp,
                                        get_weather(resp).rain_chance))
    /\ UNCHANGED <<message, user_input, wants_weather, wants_places, cand_in,
                   candidate, place, location, parts, elements, limit, names>>

\* handle_request lines 132-139, wants_weather true
CombinedWeather ==
    /\ pc = "dispatch"
    /\ ~IsWeatherOnly
    /\ wants_weather
    /\ \E resp \in WeatherResponses :
        IF ~resp.ok \/ get_weather(resp).raised
        THEN /\ calls' = Append(calls, WeatherCall("error"))
             /\ Raise
             /\ UNCHANGED <<temp, rain_chance, parts>>
        ELSE /\ calls' = Append(calls, WeatherCall("ok"))
             /\ temp' = get_weather(resp).temp
             /\ rain_chance' = get_weather(resp).rain_chance
             /\ parts' = <<WeatherFull(location[1].display_name,
                                       get_weather(resp).temp,
                                       get_weather(resp).rain_chance)>>
             /\ pc' = "places"
             /\ UNCHANGED <<reply, http_status>>
    /\ UNCHANGED <<message, user_input, wants_weather, wants_places, cand_in,
                   candidate, place, location, elements, limit, names>>

\* handle_request lines 132-135, wants_weather false
NoWeather ==
    /\ pc = "dispatch"
    /\ ~IsWeatherOnly
    /\ ~wants_weather
    /\ parts' = <<>>
    /\ pc' = "places"
    /\ UNCHANGED <<message, user_input, wants_weather, wants_places, cand_in,
                   candidate, place, location, temp, rain_chance, reply,
                   http_status, calls, elements, limit, names>>

PlacesCall(outcome) ==
    [agent |-> "places", lat |-> location[1].lat, lon |-> location[1].lon,
     limit |-> PlacesLimit, outcome |-> outcome]

\* handle_request lines 142-153 with PlacesAgent.get_places lines 51-63
Places ==
    /\ pc = "places"
    /\ IF wants_places
       THEN \E resp \in PlacesResponses :
            /\ limit' = PlacesLimit
            /\ IF ~resp.ok
               THEN /\ calls' = Append(calls, PlacesCall("error"))
                    /\ Raise
                    /\ UNCHANGED <<parts, elements, names>>
               ELSE /\ calls' = Append(calls, PlacesCall("ok"))
                    /\ elements' = resp.elements
                    /\ names' = Some(get_places(resp.elements, PlacesLimit))
                    /\ parts' = Append(parts,
                          PlacesFragment(location[1].display_name, wants_weather,
                                         get_places(resp.elements, PlacesLimit)))
                    /\ pc' = "return"
                    /\ UNCHANGED <<reply, http_status>>
       ELSE /\ pc' = "return"
            /\ UNCHANGED <<calls, limit, parts, elements, names, reply,
                           http_status>>
    /\ UNCHANGED <<message, user_input, wants_weather, wants_places, cand_in,
                   candidate, place, location, temp, rain_chance>>

\* handle_request line 155
ReturnParts ==
    /\ pc = "return"
    /\ Return(Join(" ", parts))
    /\ UNCHANGED <<message, user_input, wants_weather, wants_places, cand_in,
                   candidate, place, location, temp, rain_chance, parts, calls,
                   elements, limit, names>>

Next ==
    \/ ApiQuery
    \/ Classify
    \/ ExtractAnchor
    \/ ExtractTruncate
    \/ ExtractStrip
    \/ ExtractCap
    \/ CheckPlace
    \/ Geocode
    \/ WeatherOnly
    \/ CombinedWeather
    \/ NoWeather
    \/ Places
    \/ ReturnParts

Spec == Init /\ [][Next]_vars

-----------------------------------------------------------------------------
(* The text functions on their own: handle_request's intent detection and  *)
(* _extract_place applied to any text.                                     *)

InitExtract ==
    /\ pc = "classify"
    /\ message \in ExtractInputs
    /\ user_input = message
    /\ elements = <<>> /\ limit = 0
    /\ Fresh

NextExtract ==
    \/ Classify
    \/ ExtractAnchor
    \/ ExtractTruncate
    \/ ExtractStrip
    \/ ExtractCap

SpecExtract == InitExtract /\ [][NextExtract]_vars

-----------------------------------------------------------------------------
(* PlacesAgent.get_places on its own, for any provider elements and limit. *)

InitPlaces ==
    /\ pc = "get_places"
    /\ message = "" /\ user_input = ""
    /\ elements \in ElementSeqs
    /\ limit \in 0..MaxLimit
    /\ Fresh

\* get_places lines 55-63
GetPlaces ==
    /\ pc = "get_places"
    /\ names' = Some(get_places(elements, limit))
    /\ pc' = "returned"
    /\ UNCHANGED <<message, user_input, wants_weather, wants_places, cand_in,
                   candidate, place, location, temp, rain_chance, parts, reply,
                   http_status, calls, elements, limit>>

NextPlaces == GetPlaces

SpecPlaces == InitPlaces /\ [][NextPlaces]_vars

-----------------------------------------------------------------------------
(* Properties.                                                             *)

\* 0-based positions at which sub (given in lower case) occurs in s when
\* upper and lower case are not told apart
PositionsIgnoreCase(sub, s) ==
    {i \in 0..(Len(s) - Len(sub)) : Lower(SubSeq(s, i + 1, i + Len(sub))) = sub}

ContainsIgnoreCase(sub, s) == PositionsIgnoreCase(sub, s) # {}

Least(S) == CHOOSE i \in S : \A j \in S : i <= j
Greatest(S) == CHOOSE i \in S : \A j \in S : j <= i

\* the upstream agents called so far, in order
Agents == [i \in 1..Len(calls) |-> calls[i].agent]

CallsTo(a) == {i \in 1..Len(calls) : calls[i].agent = a}

\* C1: for the input "What's the weather in Paris?" the extractor yields
\* exactly "Paris", and "Paris" is the name passed to the geocoder.
C1_ScenarioAYieldsParis ==
    (message = "What's the weather in Paris?" /\ pc = "geocode")
        => place = "Paris"

\* C2: the weather and places lookups are invoked only after the geocoder
\* returned a resolved location in the same request; when the geocoder
\* reports not-found the reply is exactly "I don't know this place exist."
\* and neither lookup is invoked.
C2_LookupsNeedResolvedLocation ==
    /\ \A i \in CallsTo("weather") \cup CallsTo("places") :
          /\ location # None
          /\ \E j \in CallsTo("geocode") : j < i /\ calls[j].outcome = "ok"
    /\ (\E j \in CallsTo("geocode") : calls[j].outcome = "not_found")
          => /\ pc = "done"
             /\ reply = Some("I don't know this place exist.")
             /\ CallsTo("weather") = {}
             /\ CallsTo("places") = {}

C2_Witness ==
    /\ pc = "done"
    /\ message = "places to visit in Atlantis"
    /\ Len(calls) = 1
    /\ calls[1] = [agent |-> "geocode", q |-> "Atlantis",
                   outcome |-> "not_found"]
    /\ reply = Some("I don't know this place exist.")

\* C3: the classified intent is never {wants_weather = false, wants_places =
\* false}, and a text containing none of the keywords (case-insensitive)
\* gets exactly wants_places = true and wants_weather = false.
C3_IntentNeverEmpty ==
    pc # "classify" =>
        /\ wants_weather \/ wants_places
        /\ (\A k \in {"weather", "temperature", "place", "places", "visit",
                      "attraction", "sightseeing"} :
                ~ContainsIgnoreCase(k, user_input))
              => (wants_places /\ ~wants_weather)

C3_Witness ==
    /\ pc = "extracted"
    /\ user_input = "Paris"
    /\ wants_places /\ ~wants_weather

\* the part of t after the rightmost " to " of t
AfterRightmostTo(t) ==
    SliceFrom(t, Greatest(PositionsIgnoreCase(" to ", t)) + 4)

NoTwoAlike(ns) ==
    \A a, b \in 1..Len(ns) : a # b => ns[a] # ns[b]

\* position of the first provider element named n
FirstNamed(n) == Least({i \in 1..Len(elements) : elements[i] = Some(n)})

\* C5: for every sequence of provider elements and every limit, get_places
\* returns no two identical names, keeps the names in first-occurrence
\* order, and returns at most `limit` entries.
C5_DedupOrderCap ==
    pc = "returned" =>
        /\ NoTwoAlike(names[1])
        /\ \A a, b \in 1..Len(names[1]) :
              a < b => FirstNamed(names[1][a]) < FirstNamed(names[1][b])
        /\ Len(names[1]) <= limit

WeatherOnlyAnswered ==
    /\ pc = "done"
    /\ wants_weather /\ ~wants_places
    /\ \E i \in CallsTo("weather") : calls[i].outcome = "ok"

\* C6: in a weather-only request with a resolved location the reply form is
\* decided by field presence alone, 0 counting as present: both present gives
\* the full sentence, temperature alone the temperature-only sentence that
\* never mentions rain, temperature absent the apology naming the place.
C6_WeatherOnlyByPresence ==
    WeatherOnlyAnswered =>
        LET dn == location[1].display_name IN
        /\ (temp # None /\ rain_chance # None) =>
              reply = Some("In " \o dn \o " it's currently " \o Str(temp)
                           \o Degree \o "C with a chance of " \o Str(rain_chance)
                           \o "% to rain.")
        /\ (temp # None /\ rain_chance = None) =>
              /\ reply = Some("In " \o dn \o " it's currently " \o Str(temp)
                              \o Degree \o "C.")
              /\ ~ContainsIgnoreCase("rain", reply[1])
        /\ temp = None =>
              reply = Some("Sorry, I couldn't get the weather for " \o dn
                           \o ".")

C6_Witness ==
    /\ WeatherOnlyAnswered
    /\ temp = Some(0) /\ rain_chance = None
    /\ reply = Some("In Paris it's currently 0" \o Degree \o "C.")

\* C7: whenever the extractor returns an empty candidate, handle_request
\* returns "Please tell me which place you want to go." and calls neither
\* the geocoder nor the weather lookup nor the places lookup.
C7_EmptyCandidateNoCalls ==
    /\ place = "" => calls = <<>>
    /\ (pc = "done" /\ user_input # "" /\ place = "")
          => /\ reply = Some("Please tell me which place you want to go.")
             /\ http_status = 200

C7_Witness ==
    /\ pc = "done"
    /\ user_input = "?"
    /\ place = ""
    /\ reply = Some("Please tell me which place you want to go.")
    /\ calls = <<>>

\* C8: an upstream failure other than geocoder not-found is not caught: the
\* request ends with it, no reply is composed, no later upstream call is
\* made, and no call is retried.
C8_UpstreamFailurePropagates ==
    /\ \A i \in 1..Len(calls) :
          calls[i].outcome = "error"
              => /\ i = Len(calls)
                 /\ pc = "done"
                 /\ reply = None
                 /\ http_status = 500
    /\ \A i, j \in 1..Len(calls) : i # j => calls[i].agent # calls[j].agent

C8_Witness ==
    /\ pc = "done"
    /\ Agents = <<"geocode", "weather", "places">>
    /\ calls[2].outcome = "ok"
    /\ calls[3].outcome = "error"
    /\ reply = None
    /\ http_status = 500

InOrderOnce ==
    Agents \in {<<>>, <<"geocode">>, <<"geocode", "weather">>,
                <<"geocode", "places">>, <<"geocode", "weather", "places">>}

WeatherSentence ==
    "In " \o location[1].display_name \o " it's currently " \o Str(temp)
        \o Degree \o "C with a chance of " \o Str(rain_chance) \o "% to rain."

PlacesSentence ==
    IF Len(names[1]) > 0
    THEN "And these are the places you can go:" \o "\n"
             \o Join("\n", names[1])
    ELSE "Sorry, I couldn't find tourist places near "
             \o location[1].display_name \o "."

\* C9 as stated: in every request the upstream calls are geocoder, weather,
\* places in that order, each at most once; a weather-only intent calls
\* weather exactly once and never places; a places-only intent never calls
\* weather and calls places exactly once with cap 5; an intent with both
\* flags calls weather and then places, and the reply is the weather fragment,
\* a single space, the places fragment.
C9_Original ==
    /\ InOrderOnce
    /\ (pc = "done" /\ user_input # "") =>
          /\ (wants_weather /\ ~wants_places)
                => Agents = <<"geocode", "weather">>
          /\ (~wants_weather /\ wants_places)
                => /\ Agents = <<"geocode", "places">>
                   /\ calls[2].limit = 5
          /\ (wants_weather /\ wants_places)
                => /\ Agents = <<"geocode", "weather", "places">>
                   /\ calls[3].limit = 5
                   /\ reply = Some(WeatherSentence \o " " \o PlacesSentence)

\* C9 as amended: the calls are geocoder, weather, places in that order,
\* each at most once; in a request whose place the geocoder resolved, a
\* weather-only intent calls weather exactly once and never places, a
\* places-only intent never calls weather and calls places exactly once with
\* cap 5, and an intent with both flags calls weather once and, if that call
\* returns, places once with cap 5; when both return the reply is the weather
\* fragment, a single space, the places fragment.  A request that ends
\* before the place is resolved calls neither lookup.
C9_DispatchAfterResolution ==
    /\ InOrderOnce
    /\ (pc = "done" /\ location = None)
          => (CallsTo("weather") = {} /\ CallsTo("places") = {})
    /\ (pc = "done" /\ location # None) =>
          /\ (wants_weather /\ ~wants_places)
                => Agents = <<"geocode", "weather">>
          /\ (~wants_weather /\ wants_places)
                => /\ Agents = <<"geocode", "places">>
                   /\ calls[2].limit = 5
          /\ (wants_weather /\ wants_places)
                => /\ Len(calls) >= 2
                   /\ calls[2].agent = "weather"
                   /\ calls[2].outcome = "error" => Len(calls) = 2
                   /\ calls[2].outcome = "ok"
                         => /\ Agents = <<"geocode", "weather", "places">>
                            /\ calls[3].limit = 5
                            /\ calls[3].outcome = "ok" =>
                                  reply = Some(WeatherSentence \o " "
                                               \o PlacesSentence)

C9_Witness ==
    /\ pc = "done"
    /\ wants_weather /\ wants_places
    /\ Agents = <<"geocode", "weather", "places">>
    /\ calls[3].outcome = "ok"
    /\ Len(names[1]) = 2
    /\ reply = Some(WeatherSentence \o " " \o PlacesSentence)

markers == <<",", "?", ".", " and ", " what ">>

MarkersPresent(s) ==
    {i \in 1..Len(markers) : ContainsIgnoreCase(markers[i], s)}

FirstAt(i, s) == Least(PositionsIgnoreCase(markers[i], s))

\* C10: the truncation pass applies at most one clause marker: the markers
\* are tried in the order "," "?" "." " and " " what ", the candidate is cut
\* before the first occurrence of the highest-priority marker present, and no
\* lower-priority marker is applied afterwards, even one that occurs earlier
\* in the text.
C10_OneMarkerByPriority ==
    pc = "strip" =>
        IF MarkersPresent(cand_in) = {}
        THEN candidate = cand_in
        ELSE candidate =
                Strip(SliceTo(cand_in,
                              FirstAt(Least(MarkersPresent(cand_in)), cand_in)))

C10_Witness ==
    /\ pc = "strip"
    /\ \E i, j \in MarkersPresent(cand_in) :
          /\ i = Least(MarkersPresent(cand_in))
          /\ i < j
          /\ FirstAt(j, cand_in) < FirstAt(i, cand_in)
          /\ ContainsIgnoreCase(markers[j], candidate)

====
